---- MODULE Spec2Model ----
(***************************************************************************)
(* State-machine model of the DynamicClock component                       *)
(* (src/dynamic-clock.tsx): the React state of the component, the two      *)
(* one-second interval timers, the alarm list handlers and the alarm       *)
(* check effect.                                                           *)
(*                                                                         *)
(* Conventions                                                             *)
(*  - A Date is its epoch value in milliseconds; the local time zone is    *)
(*    taken to be UTC, so local wall time is the epoch value itself.       *)
(*  - A JavaScript string that the code formats, slices or compares        *)
(*    (times, ids) is a sequence of one-character strings; free text       *)
(*    (labels, messages) is a TLA+ string.                                 *)
(*  - One action is one event-loop task.  A timer callback or a passive    *)
(*    effect only queues its setState calls; the render that applies them  *)
(*    is a later task, and the effects of that render another one.  A      *)
(*    click or a keystroke is rendered, and its effects are run, before    *)
(*    its task ends.                                                       *)
(*  - React runs the effects that are still due before it renders a click  *)
(*    or removes the component; that run is the step Effects.              *)
(*  - alert() blocks the event loop: while dialogs are open (open > 0)     *)
(*    only the wall clock moves.                                           *)
(*  - Whether hour 0 is printed "00" or "24" under hour12: false depends   *)
(*    on the JavaScript engine; the engine of a run is fixed in midnight.  *)
(***************************************************************************)
EXTENDS Integers, Sequences, FiniteSets

VARIABLES
    now,            \* the wall clock: what new Date() / Date.now() return
    midnight,       \* the hour this engine prints for hour 0: 0 or 24
    mounted,        \* useState(false), line 44
    unmounted,      \* the component was removed and its cleanups ran
    currentTime,    \* useState<Date | null>(null), line 38
    theme,          \* useState<TimeTheme>("morning"), line 41
    alarms,         \* useState<Alarm[]>([]), line 47
    newAlarmTime,   \* useState(""), line 50
    newAlarmLabel,  \* useState(""), line 53
    worldClocks,    \* useState<WorldClock[]>([...]), lines 57-62
    timer,          \* the live intervals of lines 78-80: the due time of each
    worldTimer,     \* the live intervals of line 128: the due time of each
    pending,        \* the setState calls that no render has applied yet
    effectsDue,     \* the changed dependencies whose effects have not run yet
    fired,          \* the alert() calls of the latest run of the alarm check
    open,           \* how many of those dialogs are not yet dismissed
    rendered,       \* what the latest render displays
    handlerAlarms,  \* the alarms value the handlers of the latest render hold
    applied,        \* the add / toggle / delete calls so far, applied in turn
    op              \* the latest task: its name and the argument it was given

vars == <<now, midnight, mounted, unmounted, currentTime, theme, alarms,
          newAlarmTime, newAlarmLabel, worldClocks, timer, worldTimer, pending,
          effectsDue, fired, open, rendered, handlerAlarms, applied, op>>

(***************************************************************************)
(* Bounds of the model                                                     *)
(***************************************************************************)
\* the longest alarm list the handlers are exercised on
MaxAlarms == 2
\* the wall clock is explored for this many seconds after StartTime
RunSeconds == 1
\* how many seconds may pass while an alert dialog blocks the event loop
MaxFreezeSeconds == 2

(***************************************************************************)
(* Strings                                                                 *)
(***************************************************************************)
EmptyString == << >>

DigitChars == <<"0", "1", "2", "3", "4", "5", "6", "7", "8", "9">>

Digit(n) == DigitChars[n + 1]

IsDigit(c) == \E n \in 0..9 : DigitChars[n + 1] = c

DigitValue(c) == CHOOSE n \in 0..9 : DigitChars[n + 1] = c

\* String.prototype.slice(from, to) for 0 <= from <= to
Slice(s, from, to) ==
    SubSeq(s, from + 1, IF to < Len(s) THEN to ELSE Len(s))

\* two-digit, zero-padded decimal of n in 0..99
Pad2(n) == <<Digit(n \div 10), Digit(n % 10)>>

\* Number.prototype.toString() of a non-negative integer
RECURSIVE toString(_)
toString(n) ==
    IF n < 10 THEN <<Digit(n)>>
    ELSE toString(n \div 10) \o <<Digit(n % 10)>>

(***************************************************************************)
(* Dates                                                                   *)
(***************************************************************************)
\* the null of useState<Date | null>(null): no Date has this value
Null == -1

\* no interval is scheduled
NoTimer == {}

\* setInterval(..., 1000)
IntervalMs == 1000

HMS(h, m, s) == ((h * 60 + m) * 60 + s) * 1000

getHours(d) == (d \div 3600000) % 24

getMinutes(d) == (d \div 60000) % 60

getSeconds(d) == (d \div 1000) % 60

\* the hour field of toLocaleTimeString under hour12: false: hour 0 is
\* printed as "00" or as "24", as the engine has it
HourField(hour) == Pad2(IF hour = 0 THEN midnight ELSE hour)

\* Date.prototype.toTimeString(): "HH:MM:SS GMT+0000 (...)"
toTimeString(d) ==
    Pad2(getHours(d)) \o <<":">> \o Pad2(getMinutes(d)) \o <<":">>
        \o Pad2(getSeconds(d)) \o <<" ", "G", "M", "T", "+", "0", "0", "0", "0">>

\* a slice that keeps the seconds: slice(0, 8)
currentTimeStringWithSeconds(d) == Slice(toTimeString(d), 0, 8)

\* currentTime.toTimeString().slice(0, 5), line 137
currentTimeString(d) == Slice(toTimeString(d), 0, 5)

(***************************************************************************)
(* Theme effect, lines 88-106                                              *)
(***************************************************************************)
ThemeLabels == {"morning", "afternoon", "evening", "night"}

\* a slip in the evening bound: 'hour <= 21' for 'hour < 21'
themeOfLateEvening(hour) ==
    IF hour >= 6 /\ hour < 12 THEN "morning"
    ELSE IF hour >= 12 /\ hour < 18 THEN "afternoon"
    ELSE IF hour >= 18 /\ hour <= 21 THEN "evening"
    ELSE "night"

\* the if / else-if chain of lines 95-103
themeOf(hour) ==
    IF hour >= 6 /\ hour < 12 THEN "morning"
    ELSE IF hour >= 12 /\ hour < 18 THEN "afternoon"
    ELSE IF hour >= 18 /\ hour < 21 THEN "evening"
    ELSE "night"

\* a theme effect without the early return of line 89
themeEffectUnguarded(d, previous) == themeOf(getHours(d))

\* the theme state after the effect of lines 88-106 ran for currentTime = d
themeEffect(d, previous) ==
    IF d = Null THEN previous ELSE themeOf(getHours(d))

(***************************************************************************)
(* The main display, lines 232-282                                         *)
(***************************************************************************)
\* "--:--:--", line 233
TimePlaceholder == <<"-", "-", ":", "-", "-", ":", "-", "-">>

\* stands for the placeholder of line 244
DatePlaceholder == <<"-", "-", "-", "-", "/", "-", "-", "/", "-", "-">>

\* formatTime, lines 232-240: local HH:MM:SS in 24-hour form
formatTime(date) ==
    IF date = Null THEN TimePlaceholder
    ELSE HourField(getHours(date)) \o <<":">> \o Pad2(getMinutes(date))
            \o <<":">> \o Pad2(getSeconds(date))

\* formatDate, lines 243-251: stands for the long date of the day of date
formatDate(date) ==
    IF date = Null THEN DatePlaceholder
    ELSE <<"d", "a", "y", " ">> \o toString(date \div 86400000)

\* the render returned null, lines 257-259
NoFrame ==
    [shown |-> FALSE, instant |-> Null, time |-> EmptyString,
     date |-> EmptyString, theme |-> ""]

\* what one render displays: nothing before the mount, else the badge of the
\* theme state, formatTime(currentTime) and formatDate(currentTime)
Frame(isMounted, d, label) ==
    IF ~isMounted THEN NoFrame
    ELSE [shown |-> TRUE, instant |-> d, time |-> formatTime(d),
          date |-> formatDate(d), theme |-> label]

\* handlers kept from the first render, as useCallback(..., []) would
handlersOfFirstRender(list, held) == held

\* addAlarm, toggleAlarm and deleteAlarm are created anew by every render
\* and hold the alarms value of that render, lines 192-227
handlersOfRender(list, held) == list

(***************************************************************************)
(* World clocks, lines 57-62 and 110-125                                   *)
(***************************************************************************)
\* offset from UTC, in hours, of each zone on the modelled day (1970-01-01)
zoneOffsetHours(timezone) ==
    CASE timezone = "America/New_York" -> -5
      [] timezone = "Europe/London" -> 1
      [] timezone = "Asia/Tokyo" -> 9
      [] timezone = "Australia/Sydney" -> 10

\* toLocaleTimeString("en-US", {timeZone, hour12: false, 2-digit h/m/s})
toLocaleTimeString(d, timezone) ==
    LET z == d + (zoneOffsetHours(timezone) + 24) * 3600000
    IN  HourField(getHours(z)) \o <<":">> \o Pad2(getMinutes(z)) \o <<":">>
            \o Pad2(getSeconds(z))

initialWorldClocks ==
    << [city |-> "New York", timezone |-> "America/New_York", time |-> EmptyString],
       [city |-> "London", timezone |-> "Europe/London", time |-> EmptyString],
       [city |-> "Tokyo", timezone |-> "Asia/Tokyo", time |-> EmptyString],
       [city |-> "Sydney", timezone |-> "Australia/Sydney", time |-> EmptyString] >>

\* a refresh that copies only the city instead of spreading the entry
updateWorldClocksWithoutSpread(prev, d) ==
    [i \in 1..Len(prev) |->
        [city |-> prev[i].city, time |-> toLocaleTimeString(d, prev[i].timezone)]]

\* prev.map((clock) => ({...clock, time: new Date().toLocaleTimeString(...)}))
updateWorldClocks(prev, d) ==
    [i \in 1..Len(prev) |->
        [prev[i] EXCEPT !.time = toLocaleTimeString(d, prev[i].timezone)]]

(***************************************************************************)
(* The time input, lines 328-334                                           *)
(***************************************************************************)
IsTwoDigits(s, max) ==
    /\ Len(s) = 2
    /\ IsDigit(s[1]) /\ IsDigit(s[2])
    /\ DigitValue(s[1]) * 10 + DigitValue(s[2]) <= max

\* "HH:MM" with HH in 00..23 and MM in 00..59
IsHHMM(s) ==
    /\ Len(s) = 5
    /\ IsTwoDigits(SubSeq(s, 1, 2), 23)
    /\ s[3] = ":"
    /\ IsTwoDigits(SubSeq(s, 4, 5), 59)

\* a valid time string of HTML: HH:MM, optionally :SS, optionally .f, .ff, .fff
IsValidTimeString(s) ==
    \/ IsHHMM(s)
    \/ /\ Len(s) >= 8
       /\ IsHHMM(SubSeq(s, 1, 5))
       /\ s[6] = ":"
       /\ IsTwoDigits(SubSeq(s, 7, 8), 59)
       /\ \/ Len(s) = 8
          \/ /\ Len(s) \in 10..12
             /\ s[9] = "."
             /\ \A i \in 10..Len(s) : IsDigit(s[i])

\* e.target.value of <input type="time">: the typed text when it is a valid
\* time string, the empty string otherwise
timeInputValue(raw) == IF IsValidTimeString(raw) THEN raw ELSE EmptyString

(***************************************************************************)
(* Alarm check effect, lines 133-147                                       *)
(***************************************************************************)
\* stands for the prefix of the alert text, line 144
AlarmPrefix == "Alarm: "

\* stands for the default text of line 144, used when the label is falsy
DefaultMessage == "time to wake up"

\* a message without the fallback: `${prefix}${alarm.label}`
alertMessageLabelOnly(alarm) == <<AlarmPrefix, alarm.label>>

\* `${prefix}${alarm.label || default}`
alertMessage(alarm) ==
    <<AlarmPrefix, IF alarm.label # "" THEN alarm.label ELSE DefaultMessage>>

\* a check that forgets the enabled flag
alarmMatchesIgnoringEnabled(alarm, d) == alarm.time = currentTimeString(d)

\* alarm.enabled && alarm.time === currentTimeString, line 142
alarmMatches(alarm, d) == alarm.enabled /\ alarm.time = currentTimeString(d)

\* alarms.forEach(...): the alert() calls, in call order; each is tagged with
\* the position of the alarm that raised it
RECURSIVE forEachAlarm(_, _, _)
forEachAlarm(list, d, i) ==
    IF i > Len(list) THEN << >>
    ELSE (IF alarmMatches(list[i], d)
            THEN << [alarm |-> i, message |-> alertMessage(list[i])] >>
            ELSE << >>)
         \o forEachAlarm(list, d, i + 1)

\* the effect body: nothing while currentTime is null (line 134)
alarmCheck(list, d) == IF d = Null THEN << >> ELSE forEachAlarm(list, d, 1)

(***************************************************************************)
(* Alarm list handlers, lines 192-227                                      *)
(***************************************************************************)
\* the object literal of lines 196-201, created at wall-clock time d
newAlarm(d, time, label) ==
    [id |-> toString(d), time |-> time, label |-> label, enabled |-> TRUE]

\* an add that puts the new alarm first: [newAlarm, ...alarms]
addAlarmListPrepending(list, time, label, d) ==
    IF time # EmptyString THEN <<newAlarm(d, time, label)>> \o list ELSE list

\* an add without the test of line 194
addAlarmListUnguarded(list, time, label, d) ==
    Append(list, newAlarm(d, time, label))

\* the list addAlarm passes to setAlarms; the same list when it sets nothing
addAlarmList(list, time, label, d) ==
    IF time # EmptyString THEN Append(list, newAlarm(d, time, label)) ELSE list

\* a toggle that switches off instead of flipping: enabled: false
toggleAlarmListSwitchingOff(list, id) ==
    [i \in 1..Len(list) |->
        IF list[i].id = id THEN [list[i] EXCEPT !.enabled = FALSE] ELSE list[i]]

\* alarms.map(alarm => alarm.id === id ? {...alarm, enabled: !alarm.enabled} : alarm)
toggleAlarmList(list, id) ==
    [i \in 1..Len(list) |->
        IF list[i].id = id
            THEN [list[i] EXCEPT !.enabled = ~list[i].enabled]
            ELSE list[i]]

\* a filter with the test inverted: alarm.id === id
deleteAlarmListKeepingMatch(list, id) ==
    SelectSeq(list, LAMBDA alarm : alarm.id = id)

\* alarms.filter(alarm => alarm.id !== id)
RECURSIVE deleteAlarmList(_, _)
deleteAlarmList(list, id) ==
    IF list = << >> THEN << >>
    ELSE (IF Head(list).id # id THEN <<Head(list)>> ELSE << >>)
         \o deleteAlarmList(Tail(list), id)

(***************************************************************************)
(* Inputs of the model                                                     *)
(***************************************************************************)
\* the wall clock when the page is constructed: 08:59:59.000
StartTime == HMS(8, 59, 59)

\* the last wall-clock value the runs of Spec explore
EndTime == StartTime + RunSeconds * 1000

\* texts typed into the time field
RawTimes ==
    { EmptyString,
      <<"0", "9", ":", "0", "0">>,
      <<"9", ":", "0", "0">> }

\* texts typed into the label field
Labels == {"", "Meeting"}

\* ids the buttons of lines 375-384 pass to toggleAlarm / deleteAlarm: one
\* row, with its two buttons, is rendered per alarm of the list
IdInputs == {alarms[i].id : i \in 1..Len(alarms)}

\* arg: the id given to toggleAlarm / deleteAlarm, the time addAlarm read
Task(name, arg) == [name |-> name, arg |-> arg]

\* no setState call is waiting for a render
NoPending == [mounted |-> FALSE, time |-> Null, world |-> Null, theme |-> ""]

(***************************************************************************)
(* Initial state: the component was rendered once, no effect has run yet   *)
(***************************************************************************)
Init ==
    /\ now = StartTime
    /\ midnight \in {0, 24}
    /\ mounted = FALSE
    /\ unmounted = FALSE
    /\ currentTime = Null
    /\ theme = "morning"
    /\ alarms = << >>
    /\ newAlarmTime = EmptyString
    /\ newAlarmLabel = ""
    /\ worldClocks = initialWorldClocks
    /\ timer = NoTimer
    /\ worldTimer = NoTimer
    /\ pending = NoPending
    /\ effectsDue = {}
    /\ fired = << >>
    /\ open = 0
    /\ rendered = Frame(FALSE, Null, "morning")
    /\ handlerAlarms = << >>
    /\ applied = << >>
    /\ op = Task("init", EmptyString)

(***************************************************************************)
(* The environment: the wall clock                                         *)
(***************************************************************************)
LiveDues == timer \cup worldTimer

\* React has nothing left to render and no effect left to run
Idle == pending = NoPending /\ effectsDue = {}

\* One second passes, up to the wall-clock value limit.  With the event loop
\* free, the due timer callbacks, renders and effects run before the second
\* is over; while an alert blocks the loop, up to MaxFreezeSeconds may pass.
Advance(limit) ==
    /\ now + 1000 <= limit
    /\ IF open = 0
         THEN Idle /\ \A due \in LiveDues : now < due
         ELSE \A due \in LiveDues : now + 1000 <= due + MaxFreezeSeconds * 1000
    /\ now' = now + 1000
    /\ op' = Task("advance", EmptyString)
    /\ UNCHANGED <<midnight, mounted, unmounted, currentTime, theme, alarms,
                   newAlarmTime, newAlarmLabel, worldClocks, timer, worldTimer,
                   pending, effectsDue, fired, open, rendered, handlerAlarms,
                   applied>>

(***************************************************************************)
(* The effects of the first render, in the order of their declaration:     *)
(* lines 67-70 queue mounted and currentTime; lines 73-85 and 88-106       *)
(* return early; lines 109-130 queue the world clock update and start its  *)
(* interval; lines 133-147 run the alarm check for currentTime = null      *)
(***************************************************************************)
MountEffects ==
    /\ ~mounted /\ ~pending.mounted /\ ~unmounted
    /\ LET label == themeEffect(currentTime, theme)
       IN  pending' = [mounted |-> TRUE, time |-> now, world |-> now,
                       theme |-> IF label = theme THEN "" ELSE label]
    /\ worldTimer' = worldTimer \cup {now + IntervalMs}
    /\ fired' = alarmCheck(alarms, currentTime)
    /\ open' = Len(fired')
    /\ op' = Task("mount", EmptyString)
    /\ UNCHANGED <<now, midnight, mounted, unmounted, currentTime, theme, alarms,
                   newAlarmTime, newAlarmLabel, worldClocks, timer, effectsDue,
                   rendered, handlerAlarms, applied>>

(***************************************************************************)
(* React's render task: applies the queued setState calls, commits what    *)
(* lines 256-406 return, and leaves the effects of the changed             *)
(* dependencies to a later task.  The updater of lines 111-124 reads       *)
(* new Date() when React runs it: at the call, or in this render.          *)
(***************************************************************************)
Render ==
    /\ ~unmounted /\ open = 0
    /\ pending # NoPending
    /\ effectsDue = {}
    /\ mounted' = (mounted \/ pending.mounted)
    /\ currentTime' = IF pending.time # Null THEN pending.time ELSE currentTime
    /\ theme' = IF pending.theme # "" THEN pending.theme ELSE theme
    /\ IF pending.world # Null
         THEN \E d \in {pending.world, now} :
                 worldClocks' = updateWorldClocks(worldClocks, d)
         ELSE worldClocks' = worldClocks
    /\ effectsDue' = (IF pending.mounted THEN {"mounted"} ELSE {})
                        \cup (IF pending.time # Null THEN {"currentTime"} ELSE {})
    /\ pending' = NoPending
    /\ rendered' = Frame(mounted', currentTime', theme')
    /\ handlerAlarms' = handlersOfRender(alarms, handlerAlarms)
    /\ op' = Task("render", EmptyString)
    /\ UNCHANGED <<now, midnight, unmounted, alarms, newAlarmTime, newAlarmLabel,
                   timer, worldTimer, fired, open, applied>>

\* effects whose alarm check switches off the alarms it fired
EffectsDisablingFired ==
    /\ ~unmounted /\ open = 0
    /\ effectsDue # {}
    /\ timer' = IF "mounted" \in effectsDue /\ mounted
                  THEN timer \cup {now + IntervalMs} ELSE timer
    /\ IF "currentTime" \in effectsDue
         THEN /\ LET label == themeEffect(currentTime, theme)
                 IN  pending' = [pending EXCEPT
                                    !.theme = IF label = theme THEN @ ELSE label]
              /\ fired' = alarmCheck(alarms, currentTime)
              /\ open' = Len(fired')
         ELSE UNCHANGED <<pending, fired, open>>
    /\ alarms' = [i \in 1..Len(alarms) |->
                    IF \E k \in 1..Len(fired') : fired'[k].alarm = i
                      THEN [alarms[i] EXCEPT !.enabled = FALSE]
                      ELSE alarms[i]]
    /\ effectsDue' = {}
    /\ op' = Task("effects", EmptyString)
    /\ UNCHANGED <<now, midnight, mounted, unmounted, currentTime, theme,
                   newAlarmTime, newAlarmLabel, worldClocks, worldTimer,
                   rendered, handlerAlarms, applied>>

(***************************************************************************)
(* React's passive effects task for the latest render: of the effects      *)
(* whose dependencies changed, in the order of their declaration, the      *)
(* interval of lines 73-85, the theme effect of lines 88-106 (setTheme is  *)
(* queued; an equal value queues nothing) and the alarm check of lines     *)
(* 133-147, whose alert() calls block the task                             *)
(***************************************************************************)
Effects ==
    /\ ~unmounted /\ open = 0
    /\ effectsDue # {}
    /\ timer' = IF "mounted" \in effectsDue /\ mounted
                  THEN timer \cup {now + IntervalMs} ELSE timer
    /\ IF "currentTime" \in effectsDue
         THEN /\ LET label == themeEffect(currentTime, theme)
                 IN  pending' = [pending EXCEPT
                                    !.theme = IF label = theme THEN @ ELSE label]
              /\ fired' = alarmCheck(alarms, currentTime)
              /\ open' = Len(fired')
         ELSE UNCHANGED <<pending, fired, open>>
    /\ effectsDue' = {}
    /\ op' = Task("effects", EmptyString)
    /\ UNCHANGED <<now, midnight, mounted, unmounted, currentTime, theme, alarms,
                   newAlarmTime, newAlarmLabel, worldClocks, worldTimer,
                   rendered, handlerAlarms, applied>>

\* a removal whose world clock effect returns no cleanup
UnmountKeepingWorldTimer ==
    /\ (mounted \/ pending.mounted) /\ ~unmounted /\ open = 0
    /\ effectsDue = {}
    /\ unmounted' = TRUE
    /\ timer' = NoTimer
    /\ pending' = NoPending
    /\ op' = Task("unmount", EmptyString)
    /\ UNCHANGED <<now, midnight, mounted, currentTime, theme, alarms,
                   newAlarmTime, newAlarmLabel, worldClocks, worldTimer,
                   effectsDue, fired, open, rendered, handlerAlarms, applied>>

\* the removal of the component, at any time after the effects of the first
\* render: the cleanups of lines 84 (if that interval was started) and 129;
\* setState calls that were still queued are dropped with the component
Unmount ==
    /\ (mounted \/ pending.mounted) /\ ~unmounted /\ open = 0
    /\ effectsDue = {}
    /\ unmounted' = TRUE
    /\ timer' = NoTimer
    /\ worldTimer' = NoTimer
    /\ pending' = NoPending
    /\ op' = Task("unmount", EmptyString)
    /\ UNCHANGED <<now, midnight, mounted, currentTime, theme, alarms,
                   newAlarmTime, newAlarmLabel, worldClocks, effectsDue, fired,
                   open, rendered, handlerAlarms, applied>>

(***************************************************************************)
(* Timer callbacks                                                         *)
(***************************************************************************)
\* a callback that adds one second to currentTime instead of reading the clock
TickInstantCounting ==
    /\ open = 0
    /\ \E due \in timer :
          /\ now >= due
          /\ timer' = (timer \ {due}) \cup {now + IntervalMs}
    /\ pending' = [pending EXCEPT !.time = currentTime + IntervalMs]
    /\ op' = Task("tick", EmptyString)
    /\ UNCHANGED <<now, midnight, mounted, unmounted, currentTime, theme, alarms,
                   newAlarmTime, newAlarmLabel, worldClocks, worldTimer,
                   effectsDue, fired, open, rendered, handlerAlarms, applied>>

\* the callback of lines 78-80: setCurrentTime(new Date())
TickInstant ==
    /\ open = 0
    /\ \E due \in timer :
          /\ now >= due
          /\ timer' = (timer \ {due}) \cup {now + IntervalMs}
    /\ pending' = [pending EXCEPT !.time = now]
    /\ op' = Task("tick", EmptyString)
    /\ UNCHANGED <<now, midnight, mounted, unmounted, currentTime, theme, alarms,
                   newAlarmTime, newAlarmLabel, worldClocks, worldTimer,
                   effectsDue, fired, open, rendered, handlerAlarms, applied>>

\* updateWorldClocks called by the interval of line 128: setWorldClocks(...)
TickWorld ==
    /\ open = 0
    /\ \E due \in worldTimer :
          /\ now >= due
          /\ worldTimer' = (worldTimer \ {due}) \cup {now + IntervalMs}
    /\ pending' = [pending EXCEPT !.world = now]
    /\ op' = Task("world", EmptyString)
    /\ UNCHANGED <<now, midnight, mounted, unmounted, currentTime, theme, alarms,
                   newAlarmTime, newAlarmLabel, worldClocks, timer, effectsDue,
                   fired, open, rendered, handlerAlarms, applied>>

\* the user closes the open alert dialog
Dismiss ==
    /\ open > 0
    /\ open' = open - 1
    /\ op' = Task("dismiss", EmptyString)
    /\ UNCHANGED <<now, midnight, mounted, unmounted, currentTime, theme, alarms,
                   newAlarmTime, newAlarmLabel, worldClocks, timer, worldTimer,
                   pending, effectsDue, fired, rendered, handlerAlarms, applied>>

(***************************************************************************)
(* User input: the handler, the render of its setState calls and the       *)
(* effects of that render run in the task of the event; setState calls of  *)
(* timer callbacks and effects that are still queued stay queued           *)
(***************************************************************************)
Interactive == mounted /\ ~unmounted /\ open = 0 /\ effectsDue = {}

\* onChange of the time field, line 332
SetNewAlarmTime(raw) ==
    /\ Interactive
    /\ newAlarmTime' = timeInputValue(raw)
    /\ rendered' = Frame(mounted, currentTime, theme)
    /\ handlerAlarms' = handlersOfRender(alarms, handlerAlarms)
    /\ op' = Task("time", EmptyString)
    /\ UNCHANGED <<now, midnight, mounted, unmounted, currentTime, theme, alarms,
                   newAlarmLabel, worldClocks, timer, worldTimer, pending,
                   effectsDue, fired, open, applied>>

\* onChange of the label field, line 343
SetNewAlarmLabel(text) ==
    /\ Interactive
    /\ newAlarmLabel' = text
    /\ rendered' = Frame(mounted, currentTime, theme)
    /\ handlerAlarms' = handlersOfRender(alarms, handlerAlarms)
    /\ op' = Task("label", EmptyString)
    /\ UNCHANGED <<now, midnight, mounted, unmounted, currentTime, theme, alarms,
                   newAlarmTime, worldClocks, timer, worldTimer, pending,
                   effectsDue, fired, open, applied>>

\* addAlarm, lines 192-208; setAlarms re-runs the alarm check effect
AddAlarm ==
    /\ Interactive
    /\ newAlarmTime # EmptyString => Len(alarms) < MaxAlarms
    /\ alarms' = addAlarmList(handlerAlarms, newAlarmTime, newAlarmLabel, now)
    /\ applied' = addAlarmList(applied, newAlarmTime, newAlarmLabel, now)
    /\ IF newAlarmTime # EmptyString
         THEN /\ newAlarmTime' = EmptyString
              /\ newAlarmLabel' = ""
              /\ fired' = alarmCheck(alarms', currentTime)
              /\ open' = Len(fired')
              /\ rendered' = Frame(mounted, currentTime, theme)
              /\ handlerAlarms' = handlersOfRender(alarms', handlerAlarms)
         ELSE UNCHANGED <<newAlarmTime, newAlarmLabel, fired, open, rendered,
                          handlerAlarms>>
    /\ op' = Task("add", newAlarmTime)
    /\ UNCHANGED <<now, midnight, mounted, unmounted, currentTime, theme,
                   worldClocks, timer, worldTimer, pending, effectsDue>>

\* toggleAlarm, lines 211-221; setAlarms re-runs the alarm check effect
ToggleAlarm(id) ==
    /\ Interactive
    /\ alarms' = toggleAlarmList(handlerAlarms, id)
    /\ applied' = toggleAlarmList(applied, id)
    /\ fired' = alarmCheck(alarms', currentTime)
    /\ open' = Len(fired')
    /\ rendered' = Frame(mounted, currentTime, theme)
    /\ handlerAlarms' = handlersOfRender(alarms', handlerAlarms)
    /\ op' = Task("toggle", id)
    /\ UNCHANGED <<now, midnight, mounted, unmounted, currentTime, theme,
                   newAlarmTime, newAlarmLabel, worldClocks, timer, worldTimer,
                   pending, effectsDue>>

\* deleteAlarm, lines 224-227; setAlarms re-runs the alarm check effect
DeleteAlarm(id) ==
    /\ Interactive
    /\ alarms' = deleteAlarmList(handlerAlarms, id)
    /\ applied' = deleteAlarmList(applied, id)
    /\ fired' = alarmCheck(alarms', currentTime)
    /\ open' = Len(fired')
    /\ rendered' = Frame(mounted, currentTime, theme)
    /\ handlerAlarms' = handlersOfRender(alarms', handlerAlarms)
    /\ op' = Task("delete", id)
    /\ UNCHANGED <<now, midnight, mounted, unmounted, currentTime, theme,
                   newAlarmTime, newAlarmLabel, worldClocks, timer, worldTimer,
                   pending, effectsDue>>

(***************************************************************************)
(* The component                                                           *)
(***************************************************************************)
Next ==
    \/ Advance(EndTime)
    \/ MountEffects
    \/ Render
    \/ Effects
    \/ TickInstant
    \/ TickWorld
    \/ Dismiss
    \/ \E raw \in RawTimes : SetNewAlarmTime(raw)
    \/ \E text \in Labels : SetNewAlarmLabel(text)
    \/ AddAlarm
    \/ \E id \in IdInputs : ToggleAlarm(id)
    \/ \E id \in IdInputs : DeleteAlarm(id)

Spec == Init /\ [][Next]_vars

\* the component with its removal from the page
NextLifecycle == Next \/ Unmount

SpecLifecycle == Init /\ [][NextLifecycle]_vars

(***************************************************************************)
(* One minute of ticks: the component has been running, the tick of        *)
(* 07:29:59 has been rendered and its effects have run, and the list holds *)
(* an alarm for 07:30, alone or followed by an alarm for 07:31.  The wall  *)
(* clock runs to 07:31:00; the user dismisses every alert within the       *)
(* second in which it was raised, so that no tick is missed.               *)
(***************************************************************************)
MinuteStart == HMS(7, 29, 59)

MinuteEnd == HMS(7, 31, 0)

MinuteAlarms ==
    LET first == newAlarm(HMS(7, 29, 57), <<"0", "7", ":", "3", "0">>, "")
        second == newAlarm(HMS(7, 29, 58), <<"0", "7", ":", "3", "1">>, "Meeting")
    IN  { <<first>>, <<first, second>> }

\* the component at wall-clock time d with the list given, all work done
Running(d, list) ==
    /\ now = d
    /\ midnight \in {0, 24}
    /\ mounted = TRUE
    /\ unmounted = FALSE
    /\ currentTime = d
    /\ theme = themeOf(getHours(d))
    /\ alarms = list
    /\ newAlarmTime = EmptyString
    /\ newAlarmLabel = ""
    /\ worldClocks = updateWorldClocks(initialWorldClocks, d)
    /\ timer = {d + IntervalMs}
    /\ worldTimer = {d + IntervalMs}
    /\ pending = NoPending
    /\ effectsDue = {}
    /\ fired = alarmCheck(list, d)
    /\ open = 0
    /\ rendered = Frame(TRUE, d, themeOf(getHours(d)))
    /\ handlerAlarms = list
    /\ applied = list
    /\ op = Task("effects", EmptyString)

InitMinute == \E list \in MinuteAlarms : Running(MinuteStart, list)

NextMinute ==
    \/ (open = 0 /\ Advance(MinuteEnd))
    \/ TickInstant
    \/ TickWorld
    \/ Render
    \/ Effects
    \/ Dismiss
    \/ \E id \in IdInputs : ToggleAlarm(id)
    \/ \E id \in IdInputs : DeleteAlarm(id)

SpecMinute == InitMinute /\ [][NextMinute]_vars

(***************************************************************************)
(* Alerts that stay open: the same start, with the wall clock running on   *)
(* behind the open dialogs                                                 *)
(***************************************************************************)
FreezeEnd == MinuteStart + (RunSeconds + MaxFreezeSeconds + 1) * 1000

NextFreeze ==
    \/ Advance(FreezeEnd)
    \/ TickInstant
    \/ TickWorld
    \/ Render
    \/ Effects
    \/ Dismiss
    \/ \E id \in IdInputs : ToggleAlarm(id)
    \/ \E id \in IdInputs : DeleteAlarm(id)

SpecFreeze == InitMinute /\ [][NextFreeze]_vars

(***************************************************************************)
(* The theme over the day: the page is constructed at the first or the     *)
(* last second of any hour, and runs across at most one hour boundary.     *)
(***************************************************************************)
InitTheme ==
    /\ now \in {HMS(h, 0, 0) : h \in 0..23} \cup {HMS(h, 59, 59) : h \in 0..22}
    /\ midnight \in {0, 24}
    /\ mounted = FALSE
    /\ unmounted = FALSE
    /\ currentTime = Null
    /\ theme = "morning"
    /\ alarms = << >>
    /\ newAlarmTime = EmptyString
    /\ newAlarmLabel = ""
    /\ worldClocks = initialWorldClocks
    /\ timer = NoTimer
    /\ worldTimer = NoTimer
    /\ pending = NoPending
    /\ effectsDue = {}
    /\ fired = << >>
    /\ open = 0
    /\ rendered = Frame(FALSE, Null, "morning")
    /\ handlerAlarms = << >>
    /\ applied = << >>
    /\ op = Task("init", EmptyString)

NextTheme ==
    \/ (getSeconds(now) = 59 /\ Advance(now + 1000))
    \/ MountEffects
    \/ Render
    \/ Effects
    \/ TickInstant
    \/ TickWorld

SpecTheme == InitTheme /\ [][NextTheme]_vars

(***************************************************************************)
(* The time field: everything a user can type into it, and add             *)
(***************************************************************************)
\* texts typed into the time field, with and without seconds
TypedTimes ==
    RawTimes \cup { <<"0", "9", ":", "0", "0", ":", "3", "0">>,
                    <<"2", "4", ":", "0", "0">> }

NextInput ==
    \/ MountEffects
    \/ Render
    \/ Effects
    \/ \E raw \in TypedTimes : SetNewAlarmTime(raw)
    \/ \E text \in Labels : SetNewAlarmLabel(text)
    \/ AddAlarm

SpecInput == Init /\ [][NextInput]_vars

(***************************************************************************)
(* toggleAlarm and deleteAlarm called with any id, also one that no alarm  *)
(* of the list has, on the running component                               *)
(***************************************************************************)
\* ids of alarms created in the three seconds before StartTime
CallIds == {toString(StartTime - k * 1000) : k \in 1..3}

\* alarms created one and two seconds before StartTime
CallAlarms ==
    { [newAlarm(StartTime - k * 1000, <<"0", "7", ":", "3", "0">>, label)
          EXCEPT !.enabled = enabled] :
        k \in 1..2, label \in Labels, enabled \in BOOLEAN }

\* the lists of up to MaxAlarms of them, the earlier id first
CallLists ==
    { list \in UNION { [1..n -> CallAlarms] : n \in 0..MaxAlarms } :
        \A i \in 1..Len(list) : \A j \in 1..Len(list) :
            (i < j /\ list[i].id # list[j].id)
                => list[i].id = toString(StartTime - 2000) }

InitCalls == \E list \in CallLists : Running(StartTime, list)

NextCalls ==
    \/ Advance(EndTime)
    \/ TickInstant
    \/ TickWorld
    \/ Render
    \/ Effects
    \/ \E id \in CallIds : ToggleAlarm(id)
    \/ \E id \in CallIds : DeleteAlarm(id)

SpecCalls == InitCalls /\ [][NextCalls]_vars

(***************************************************************************)
(* Properties                                                              *)
(***************************************************************************)
\* the number a two-digit string denotes
TwoDigitValue(s) == DigitValue(s[1]) * 10 + DigitValue(s[2])

\* the time string s is "HH:MM" and names the local hour and minute of d
NamesMinuteOf(s, d) ==
    /\ IsHHMM(s)
    /\ TwoDigitValue(SubSeq(s, 1, 2)) = getHours(d)
    /\ TwoDigitValue(SubSeq(s, 4, 5)) = getMinutes(d)

\* positions of the alarms that are due at the published Instant
DueAlarms ==
    {i \in 1..Len(alarms) : alarms[i].enabled /\ NamesMinuteOf(alarms[i].time, currentTime)}

\* positions in fired of the alerts raised for the alarm at position i
AlertsFor(i) == {k \in 1..Len(fired) : fired[k].alarm = i}

\* the text an alert for this alarm is to carry
ExpectedText(alarm) == IF alarm.label = "" THEN DefaultMessage ELSE alarm.label

\* C1: when the effects of a published Instant have run (the tick-check),
\* each enabled alarm whose time is the HH:MM of that Instant has raised one
\* alert carrying its label (the default text for an empty label), and the
\* alerts are in list order, one per matching alarm.
C1_TickFiresEveryDueAlarm ==
    op.name = "effects" =>
        /\ \A i \in DueAlarms :
              \E k \in AlertsFor(i) : fired[k].message[2] = ExpectedText(alarms[i])
        /\ Len(fired) = Cardinality(DueAlarms)
        /\ \A k \in 1..Len(fired) : \A l \in 1..Len(fired) :
              k < l => fired[k].alarm < fired[l].alarm

\* C1 witness: the tick-check of 09:00:00 with two due alarms, a labelled one
\* and an unlabelled one, raised two alerts.
C1_Witness ==
    /\ op.name = "effects"
    /\ currentTime = HMS(9, 0, 0)
    /\ Len(alarms) = 2
    /\ DueAlarms = {1, 2}
    /\ alarms[1].label = "Meeting" /\ alarms[2].label = ""
    /\ Len(fired) = 2
    /\ fired[1].message = <<AlarmPrefix, "Meeting">>
    /\ fired[2].message = <<AlarmPrefix, DefaultMessage>>

\* C2: when the alarm check has just run, and for as long as its dialogs are
\* open, each alert belongs to an alarm that is in the list, enabled, and
\* whose time is the HH:MM of the current Instant; disabled, deleted and
\* non-matching alarms raise none.
C2_AlertsOnlyForDueAlarms ==
    (open > 0 \/ op.name \in {"mount", "effects", "add", "toggle", "delete"}) =>
        \A k \in 1..Len(fired) :
            /\ currentTime # Null
            /\ fired[k].alarm \in 1..Len(alarms)
            /\ alarms[fired[k].alarm].enabled
            /\ NamesMinuteOf(alarms[fired[k].alarm].time, currentTime)

\* C2 witness: the tick-check of 09:00:00 with the single alarm "09:00" /
\* "Meeting" toggled off raised no alert.
C2_Witness ==
    /\ op.name = "effects"
    /\ currentTime = HMS(9, 0, 0)
    /\ Len(alarms) = 1
    /\ alarms[1].time = <<"0", "9", ":", "0", "0">>
    /\ alarms[1].label = "Meeting"
    /\ ~alarms[1].enabled
    /\ fired = << >>

\* C3: the tick-check of an Instant of minute 07:30 raises exactly one alert
\* for each enabled alarm set to "07:30"; the tick-check of another minute
\* (07:29:59, 07:31:00) raises none for it.
C3_OncePerTickInItsMinute ==
    op.name = "effects" =>
        \A i \in 1..Len(alarms) :
            (alarms[i].enabled /\ alarms[i].time = <<"0", "7", ":", "3", "0">>) =>
                Cardinality(AlertsFor(i)) =
                    (IF getHours(currentTime) = 7 /\ getMinutes(currentTime) = 30
                        THEN 1 ELSE 0)

\* C3 witness: the tick-check of 07:30:59, the last second of the minute,
\* raised the alert of the "07:30" alarm once.
C3_Witness ==
    /\ op.name = "effects"
    /\ currentTime = HMS(7, 30, 59)
    /\ Len(alarms) >= 1
    /\ alarms[1].enabled /\ alarms[1].time = <<"0", "7", ":", "3", "0">>
    /\ Cardinality(AlertsFor(1)) = 1

\* the ids of the alarms of a list
IdsOf(list) == {list[i].id : i \in 1..Len(list)}

\* C4: no two alarms of the list have the same id.
C4_IdsAreUnique ==
    \A i \in 1..Len(alarms) : \A j \in 1..Len(alarms) :
        i # j => alarms[i].id # alarms[j].id

\* C5: an add with a non-empty time appends one alarm with the given time and
\* label and enabled = true, leaves the alarms before it as they were, and
\* clears both input fields.
C5_AddAppendsOneEnabledAlarm ==
    [][ (op'.name = "add" /\ newAlarmTime # EmptyString) =>
            /\ Len(alarms') = Len(alarms) + 1
            /\ SubSeq(alarms', 1, Len(alarms)) = alarms
            /\ alarms'[Len(alarms')].time = newAlarmTime
            /\ alarms'[Len(alarms')].label = newAlarmLabel
            /\ alarms'[Len(alarms')].enabled = TRUE
            /\ newAlarmTime' = EmptyString
            /\ newAlarmLabel' = "" ]_vars

\* C5 witness: an add of "09:00" / "Meeting" was appended behind an earlier,
\* disabled alarm, and the input fields are empty.
C5_Witness ==
    /\ op = Task("add", <<"0", "9", ":", "0", "0">>)
    /\ Len(alarms) = 2
    /\ ~alarms[1].enabled /\ alarms[1].label = ""
    /\ alarms[2].time = <<"0", "9", ":", "0", "0">>
    /\ alarms[2].label = "Meeting"
    /\ alarms[2].enabled
    /\ newAlarmTime = EmptyString /\ newAlarmLabel = ""

\* C6: an add with an empty time changes nothing: the list, the alerts and
\* the input fields (the typed label included) are as before.
C6_AddWithoutTimeIsNoOp ==
    [][ (op'.name = "add" /\ newAlarmTime = EmptyString) =>
            /\ alarms' = alarms
            /\ fired' = fired /\ open' = open
            /\ newAlarmTime' = newAlarmTime
            /\ newAlarmLabel' = newAlarmLabel
            /\ currentTime' = currentTime /\ theme' = theme ]_vars

\* C6 witness: add was pressed with no time and the label "Meeting" typed;
\* the one-alarm list and the typed label are still there.
C6_Witness ==
    /\ op = Task("add", EmptyString)
    /\ newAlarmTime = EmptyString
    /\ newAlarmLabel = "Meeting"
    /\ Len(alarms) = 1

\* C7: toggle(id) keeps the length, the order and every id, time and label,
\* flips enabled on exactly the alarms with that id (so it changes nothing
\* when no alarm has the id), and a second toggle(id) gives back the list as
\* it was.
C7_ToggleFlipsOnlyEnabled ==
    [][ op'.name = "toggle" =>
            /\ Len(alarms') = Len(alarms)
            /\ \A i \in 1..Len(alarms) :
                  /\ alarms'[i].id = alarms[i].id
                  /\ alarms'[i].time = alarms[i].time
                  /\ alarms'[i].label = alarms[i].label
                  /\ (alarms'[i].enabled # alarms[i].enabled) <=> (alarms[i].id = op'.arg)
            /\ (op'.arg \notin IdsOf(alarms) => alarms' = alarms)
            /\ toggleAlarmList(alarms', op'.arg) = alarms ]_vars

\* C7 witness: a toggle switched the first of two alarms back on and left
\* the second, which has another id, disabled.
C7_Witness ==
    /\ op.name = "toggle"
    /\ Len(alarms) = 2
    /\ alarms[1].id = op.arg /\ alarms[1].enabled
    /\ alarms[2].id # op.arg /\ ~alarms[2].enabled

\* the i-th smallest member of a set of positions
NthOf(positions, i) ==
    CHOOSE p \in positions : Cardinality({q \in positions : q < p}) = i - 1

\* C8: delete(id) leaves exactly the alarms with another id, unchanged and in
\* their order (the whole list when none has the id); after it a further
\* delete(id) or toggle(id) changes nothing; and no task other than an add
\* brings an id into the list.
C8_DeleteRemovesForGood ==
    [][ /\ op'.name = "delete" =>
              LET kept == {i \in 1..Len(alarms) : alarms[i].id # op'.arg}
              IN  /\ Len(alarms') = Cardinality(kept)
                  /\ \A k \in 1..Len(alarms') : alarms'[k] = alarms[NthOf(kept, k)]
                  /\ (op'.arg \notin IdsOf(alarms) => alarms' = alarms)
                  /\ op'.arg \notin IdsOf(alarms')
        /\ (op.name = "delete" /\ op'.name \in {"toggle", "delete"}
                /\ op'.arg = op.arg) => alarms' = alarms
        /\ op'.name # "add" => IdsOf(alarms') \subseteq IdsOf(alarms) ]_vars

\* C8 witness: a delete removed the first of two alarms; the second, with
\* another id, is now the whole list.
C8_Witness ==
    /\ op.name = "delete"
    /\ op.arg # EmptyString
    /\ Len(alarms) = 1
    /\ alarms[1].id # op.arg
    /\ alarms[1].label = "Meeting"

\* C9: every alarm's time is a zero-padded 24-hour "HH:MM" string.
C9_TimesAreHHMM ==
    \A i \in 1..Len(alarms) : IsHHMM(alarms[i].time)

\* the label the rule of the data model gives an hour
ClaimedTheme(hour) ==
    IF hour \in 6..11 THEN "morning"
    ELSE IF hour \in 12..17 THEN "afternoon"
    ELSE IF hour \in 18..20 THEN "evening"
    ELSE "night"

\* C10: once a published Instant has been rendered, its effects have run and
\* the theme they set has been rendered, the theme is morning for hours 6-11,
\* afternoon for 12-17, evening for 18-20 and night for 21-23 and 0-5, with
\* the stated values at the boundary hours.
C10_ThemeOfEveryHour ==
    /\ (Idle /\ currentTime # Null) => theme = ClaimedTheme(getHours(currentTime))
    /\ themeOf(5) = "night" /\ themeOf(6) = "morning"
    /\ themeOf(11) = "morning" /\ themeOf(12) = "afternoon"
    /\ themeOf(17) = "afternoon" /\ themeOf(18) = "evening"
    /\ themeOf(20) = "evening" /\ themeOf(21) = "night"

\* C10 witness: the tick that crosses from 20:59:59 to 21:00:00 was rendered
\* and the theme its effect set, night, was rendered after it.
C10_Witness ==
    /\ op.name = "render"
    /\ Idle
    /\ currentTime = HMS(21, 0, 0)
    /\ theme = "night"
    /\ rendered.theme = "night"

\* C11: every render that displays a defined Instant displays, as its theme,
\* the theme of the local hour of that Instant; this includes the first
\* render after the mount and the render of a tick that crosses a theme
\* boundary.
C11_ThemeFollowsInstant ==
    (rendered.shown /\ rendered.instant # Null) =>
        rendered.theme = ClaimedTheme(getHours(rendered.instant))

\* C12: after every render, each of the four world clock entries shows the
\* formatting, in its timezone, of the Instant the main display holds, so
\* the panel and the main clock show the same second.
C12_WorldClocksShowCurrentTime ==
    op.name = "render" =>
        \A i \in 1..Len(worldClocks) :
            worldClocks[i].time
                = toLocaleTimeString(currentTime, worldClocks[i].timezone)

\* C13: at any time at most one Instant timer and at most one world clock
\* timer is live; once the component is removed both are cancelled, and from
\* then on no step queues or applies an update of the Instant, the world
\* clocks or the theme, or runs the alarm check.
C13_TimersCancelledOnUnmount ==
    /\ [](/\ Cardinality(timer) <= 1
          /\ Cardinality(worldTimer) <= 1
          /\ unmounted => (timer = NoTimer /\ worldTimer = NoTimer))
    /\ [][unmounted =>
            UNCHANGED <<unmounted, currentTime, worldClocks, theme, pending,
                        effectsDue, fired, open, timer, worldTimer>>]_vars

\* C13 witness: the component ran its timers, was removed, and a second in
\* which both callbacks would have been due has passed.
C13_Witness ==
    /\ unmounted
    /\ op.name = "advance"
    /\ now >= currentTime + IntervalMs
    /\ worldClocks[3].time = toLocaleTimeString(currentTime, "Asia/Tokyo")

\* C14: a user action on the list (add, toggle, delete) raises no alert, even
\* when an enabled alarm then matches the HH:MM of the current Instant; only
\* a tick that publishes a new Instant runs the alarm check.
C14_UserActionsRaiseNoAlert ==
    [][op'.name \in {"add", "toggle", "delete"} => open' = 0]_vars

\* the alarms of the list that carry the id, in list order
WithId(list, id) == SelectSeq(list, LAMBDA alarm : alarm.id = id)

\* the list with every enabled flag negated
Flipped(list) ==
    [i \in 1..Len(list) |-> [list[i] EXCEPT !.enabled = ~list[i].enabled]]

\* C15: a tick, its render and its effects with the alarm check, and every
\* other step that is not add, toggle or delete, leave the alarm list
\* unchanged, and the tick, its render and its effects leave the two input
\* fields unchanged, so an alarm that fired stays listed and enabled.  An
\* alarm changes only by being created enabled (add), by having its enabled
\* flag flipped (toggle of its id), or by being removed (delete of its id).
C15_FiringChangesNoAlarm ==
    [][/\ op'.name \in {"tick", "render", "effects"} =>
             UNCHANGED <<alarms, newAlarmTime, newAlarmLabel>>
       /\ op'.name \notin {"add", "toggle", "delete"} => alarms' = alarms
       /\ \A id \in IdsOf(alarms) \cup IdsOf(alarms') :
             LET before == WithId(alarms, id)
                 after == WithId(alarms', id)
             IN  CASE op'.name = "toggle" /\ op'.arg = id -> after = Flipped(before)
                   [] op'.name = "delete" /\ op'.arg = id -> after = << >>
                   [] op'.name = "add" ->
                        \/ after = before
                        \/ /\ Len(after) = Len(before) + 1
                           /\ SubSeq(after, 1, Len(before)) = before
                           /\ after[Len(after)].enabled
                   [] OTHER -> after = before]_vars

\* C15 witness: the tick-check fired an alarm while a time and a label were
\* typed into the input fields; the alarm is still listed and enabled.
C15_Witness ==
    /\ op.name = "effects"
    /\ Len(fired) >= 1
    /\ alarms[fired[1].alarm].enabled
    /\ newAlarmTime # EmptyString
    /\ newAlarmLabel = "Meeting"

\* C16: the world clocks are always the four entries New York, London, Tokyo
\* and Sydney in this order, each with the city and the timezone it started
\* with; a step changes the world clocks only when it is the render of a
\* queued world clock refresh, and then only the times.
C16_WorldClockSetIsFixed ==
    /\ [](/\ Len(worldClocks) = 4
          /\ \A i \in 1..4 : DOMAIN worldClocks[i] = {"city", "timezone", "time"}
          /\ [i \in 1..4 |-> worldClocks[i].city]
                = <<"New York", "London", "Tokyo", "Sydney">>
          /\ [i \in 1..4 |-> worldClocks[i].timezone]
                = <<"America/New_York", "Europe/London", "Asia/Tokyo",
                    "Australia/Sydney">>)
    /\ [][worldClocks' # worldClocks =>
            (op'.name = "render" /\ pending.world # Null)]_vars

\* C16 witness: the timer-driven refresh of 09:00:00, which is 18:00:00 in
\* Tokyo, has been rendered.
C16_Witness ==
    /\ op.name = "render"
    /\ worldClocks[3].time = <<"1", "8", ":", "0", "0", ":", "0", "0">>
    /\ worldClocks[3].city = "Tokyo"

\* C17: while an alert dialog is open the only steps are the passing of time
\* and the dismissal, and they leave the Instant, the theme, the world
\* clocks, the alarm list, the input fields, the display and the queued
\* updates as they are.  Seconds that pass behind the dialog queue no tick:
\* the tick after the dismissal publishes the wall-clock time, and leaves no
\* further tick due.
C17_AlertFreezesAndTicksAreNotQueued ==
    [][/\ open > 0 =>
            /\ op'.name \in {"advance", "dismiss"}
            /\ UNCHANGED <<currentTime, theme, worldClocks, alarms,
                           newAlarmTime, newAlarmLabel, rendered, fired,
                           pending, effectsDue, timer, worldTimer>>
       /\ op'.name = "tick" =>
            /\ pending'.time = now'
            /\ \A due \in timer' : due > now']_vars

\* C17 witness: two seconds passed behind alert dialogs, so that a tick was
\* missed, and the last dialog has just been dismissed.
C17_Witness ==
    /\ op.name = "dismiss"
    /\ open = 0
    /\ now >= currentTime + 2 * IntervalMs
    /\ \E due \in timer : due + IntervalMs <= now

\* C18: while the Instant is undefined the component displays nothing or the
\* two placeholder strings, never a formatted time; the theme is still the
\* initial one, no change of it is queued, and no alert has been raised,
\* also after the effects of the first render have run.
C18_NothingComputedFromUndefinedInstant ==
    /\ rendered.instant = Null =>
          \/ ~rendered.shown
          \/ /\ rendered.time = <<"-", "-", ":", "-", "-", ":", "-", "-">>
             /\ rendered.date = DatePlaceholder
    /\ currentTime = Null =>
          /\ theme = "morning" /\ pending.theme = ""
          /\ fired = << >> /\ open = 0
          /\ rendered.instant = Null

\* C18 witness: the effects of the first render have run at 23:00:00 with the
\* Instant still undefined: the first Instant is queued, the theme is
\* untouched and nothing is displayed.
C18_Witness ==
    /\ op.name = "mount"
    /\ currentTime = Null
    /\ pending.time = HMS(23, 0, 0)
    /\ pending.theme = "" /\ theme = "morning"
    /\ ~rendered.shown
    /\ fired = << >>

\* C19: in every state the alarm list is the result of applying the add,
\* toggle and delete calls made so far one after another, starting from the
\* empty list, and the handlers hold the current list, never an older copy.
C19_NoListUpdateIsLost ==
    /\ alarms = applied
    /\ handlerAlarms = alarms

\* C19 witness: two alarms were added a tick apart, the later one was
\* switched off and the earlier one deleted; the later one is left, disabled.
C19_Witness ==
    /\ op = Task("delete", toString(StartTime))
    /\ Len(alarms) = 1
    /\ alarms[1].id = toString(EndTime)
    /\ ~alarms[1].enabled
    /\ currentTime = EndTime

\* the number an id denotes: the wall-clock time of the add that created it
RECURSIVE IdValue(_)
IdValue(s) ==
    IF s = << >> THEN 0
    ELSE IdValue(SubSeq(s, 1, Len(s) - 1)) * 10 + DigitValue(s[Len(s)])

\* the alarm without its enabled flag
Identity(alarm) == [id |-> alarm.id, time |-> alarm.time, label |-> alarm.label]

\* the alarms of short are alarms of long, in the order they have in long
RECURSIVE KeepsOrder(_, _)
KeepsOrder(short, long) ==
    IF short = << >> THEN TRUE
    ELSE IF long = << >> THEN FALSE
    ELSE IF Identity(short[1]) = Identity(long[1])
           THEN KeepsOrder(Tail(short), Tail(long))
           ELSE KeepsOrder(short, Tail(long))

\* C20: the list is in insertion order: an alarm created earlier never
\* stands after one created later.  An add that has a time appends and
\* lengthens the list by one; a delete shortens it by the number of alarms
\* with the given id; every other step keeps the length; and no step but an
\* add changes which alarm stands before which.
C20_ListKeepsInsertionOrder ==
    /\ [](\A i \in 1..Len(alarms) : \A j \in 1..Len(alarms) :
            i < j => IdValue(alarms[i].id) <= IdValue(alarms[j].id))
    /\ [][LET removed == {i \in 1..Len(alarms) : alarms[i].id = op'.arg}
               change == IF op'.name = "add" /\ op'.arg # EmptyString THEN 1
                         ELSE IF op'.name = "delete" THEN 0 - Cardinality(removed)
                         ELSE 0
           IN  /\ Len(alarms') - Len(alarms) = change
               /\ IF op'.name = "add"
                    THEN SubSeq(alarms', 1, Len(alarms)) = alarms
                    ELSE KeepsOrder(alarms', alarms)]_vars

\* C20 witness: of two alarms created a second apart the earlier one was
\* toggled; it still stands first.
C20_Witness ==
    /\ op.name = "toggle"
    /\ Len(alarms) = 2
    /\ op.arg = alarms[1].id
    /\ IdValue(alarms[1].id) < IdValue(alarms[2].id)
    /\ ~alarms[1].enabled /\ alarms[2].enabled

====
